---- MODULE Spec2Model ----
(***************************************************************************)
(* Model of the mip package manager client:                                *)
(*   - src/mip/commands.py: dependency resolution, the already-installed   *)
(*     filter and the sequential download/extract loop of install_package, *)
(*     uninstall_package, and the MATLAB integration refresh;              *)
(*   - src/mip_package_manager/commands/platform_utils.py: platform-tag    *)
(*     compatibility and variant selection.                                *)
(*                                                                         *)
(* Strings that the code only compares are TLA+ strings.  Platform tags,   *)
(* which the code also tests with startswith('macosx_'), are the sequence  *)
(* of their '_'-separated tokens: 'macosx_11_0_arm64' is                   *)
(* <<"macosx","11","0","arm64">>.  Splitting at '_' is a bijection, so tag *)
(* equality is sequence equality.                                          *)
(***************************************************************************)
EXTENDS Integers, Sequences, FiniteSets, TLC

VARIABLES
    manifest,       \* parsed packages.json: name -> entry (or no entry)
    requested,      \* package_name argument of the run / of the resolve call
    resolution,     \* outcome of a stand-alone _build_dependency_graph call
    variants,       \* argument of select_best_package_variant
    host,           \* current_platform_tag argument
    selected,       \* outcome of select_best_package_variant
    pc,             \* position of the install_package run
    dirs,           \* ~/.mip/packages/<name>: "absent" | "partial" | "complete"
    matlab,         \* ~/.mip/matlab/+mip: "absent" | "stale" | "current"
    mipDirExists,   \* whether ~/.mip/packages exists
    fs0,            \* the filesystem as it was when the current run began
    install_order,  \* install_package's install_order
    to_install,     \* install_package's to_install
    idx,            \* index in to_install of the package being installed
    downloads,      \* package_info records handed to urlretrieve in this run
    extracted,      \* names whose extraction completed in this run
    exitCode,       \* process exit status of the finished run (-1 while running)
    failure         \* what ended the run: "none" or the failing step

vars == <<manifest, requested, resolution, variants, host, selected, pc, dirs,
          matlab, mipDirExists, fs0, install_order, to_install, idx,
          downloads, extracted, exitCode, failure>>

installVars == <<pc, dirs, matlab, mipDirExists, fs0, install_order,
                 to_install, idx, downloads, extracted, exitCode, failure>>

----------------------------------------------------------------------------
(* Bounds *)

\* longest dependency list of a manifest entry
MaxDeps == 2
\* longest variant list handed to select_best_package_variant
MaxVariants == 3

\* package names of the manifests of the resolver specification
Names == {"A", "B", "C", "D"}
\* package names of the manifests of the install specification
InstallNames == {"A", "B", "C"}

----------------------------------------------------------------------------
(* Generic sequence helpers *)

Range(s) == {s[i] : i \in 1..Len(s)}

InSeq(x, s) == \E i \in 1..Len(s) : s[i] = x

\* all sequences over S of length at most n
SeqsUpTo(S, n) == UNION {[1..k -> S] : k \in 0..n}

\* sequences without repeated elements
NoDup(s) == \A i, j \in 1..Len(s) : s[i] = s[j] => i = j

\* number of positions of s holding x
Count(x, s) == Cardinality({i \in 1..Len(s) : s[i] = x})

\* s is t with some elements removed, order kept
RECURSIVE IsSubseq(_, _)
IsSubseq(s, t) ==
    IF s = <<>> THEN TRUE
    ELSE IF t = <<>> THEN FALSE
    ELSE IF Head(s) = Head(t) THEN IsSubseq(Tail(s), Tail(t))
    ELSE IsSubseq(s, Tail(t))

----------------------------------------------------------------------------
(* Platform tags (platform_utils.py) *)

TagAny        == <<"any">>
TagLinux      == <<"linux", "x86", "64">>
TagMacIntel   == <<"macosx", "10", "9", "x86", "64">>
TagMacArm     == <<"macosx", "11", "0", "arm64">>
TagUniversal2 == <<"macosx", "10", "9", "universal2">>
TagWin        == <<"win", "amd64">>
\* get_current_platform_tag on Darwin with an unrecognised machine
TagMacOther   == <<"macosx", "10", "9", "ppc64">>

\* tags a variant may carry
VariantTags == {TagAny, TagLinux, TagMacIntel, TagMacArm, TagUniversal2, TagWin}
\* tags passed as current_platform_tag
HostTags == {TagLinux, TagMacIntel, TagMacArm, TagMacOther, TagWin,
             TagAny, TagUniversal2}

\* current_platform_tag.startswith('macosx_')
StartsWithMacosx(tag) == Len(tag) >= 2 /\ tag[1] = "macosx"

is_platform_compatible(package_platform_tag, current_platform_tag) ==
    IF package_platform_tag = TagAny THEN TRUE
    ELSE IF package_platform_tag = current_platform_tag THEN TRUE
    ELSE IF package_platform_tag = TagUniversal2
         THEN current_platform_tag \in {TagMacIntel, TagMacArm}
    ELSE FALSE

NoVariant == [platform_tag |-> <<>>, filename |-> "none"]

\* what select_best_package_variant returns: found = FALSE is None; rule
\* names the return statement that produced the value
Selection(found, rule, v) == [found |-> found, rule |-> rule, variant |-> v]

select_best_package_variant_any_first(vs, current_platform_tag) ==
    IF vs = <<>> THEN Selection(FALSE, "empty", NoVariant)
    ELSE
    LET compatible == SelectSeq(vs, LAMBDA v :
                        is_platform_compatible(v.platform_tag, current_platform_tag))
        exact_matches == SelectSeq(compatible, LAMBDA v :
                        v.platform_tag = current_platform_tag)
        universal2 == SelectSeq(compatible, LAMBDA v :
                        v.platform_tag = TagUniversal2)
        any_platform == SelectSeq(compatible, LAMBDA v : v.platform_tag = TagAny)
    IN  IF compatible = <<>> THEN Selection(FALSE, "incompatible", NoVariant)
        ELSE IF exact_matches # <<>> THEN Selection(TRUE, "exact", exact_matches[1])
        ELSE IF any_platform # <<>> THEN Selection(TRUE, "any", any_platform[1])
        ELSE IF StartsWithMacosx(current_platform_tag) /\ universal2 # <<>>
             THEN Selection(TRUE, "universal2", universal2[1])
        ELSE Selection(TRUE, "fallback", compatible[1])

select_best_package_variant_last_exact(vs, current_platform_tag) ==
    IF vs = <<>> THEN Selection(FALSE, "empty", NoVariant)
    ELSE
    LET compatible == SelectSeq(vs, LAMBDA v :
                        is_platform_compatible(v.platform_tag, current_platform_tag))
        exact_matches == SelectSeq(compatible, LAMBDA v :
                        v.platform_tag = current_platform_tag)
        universal2 == SelectSeq(compatible, LAMBDA v :
                        v.platform_tag = TagUniversal2)
        any_platform == SelectSeq(compatible, LAMBDA v : v.platform_tag = TagAny)
    IN  IF compatible = <<>> THEN Selection(FALSE, "incompatible", NoVariant)
        ELSE IF exact_matches # <<>>
             THEN Selection(TRUE, "exact", exact_matches[Len(exact_matches)])
        ELSE IF StartsWithMacosx(current_platform_tag) /\ universal2 # <<>>
             THEN Selection(TRUE, "universal2", universal2[1])
        ELSE IF any_platform # <<>> THEN Selection(TRUE, "any", any_platform[1])
        ELSE Selection(TRUE, "fallback", compatible[1])

select_best_package_variant(vs, current_platform_tag) ==
    IF vs = <<>> THEN Selection(FALSE, "empty", NoVariant)
    ELSE
    LET compatible == SelectSeq(vs, LAMBDA v :
                        is_platform_compatible(v.platform_tag, current_platform_tag))
        exact_matches == SelectSeq(compatible, LAMBDA v :
                        v.platform_tag = current_platform_tag)
        universal2 == SelectSeq(compatible, LAMBDA v :
                        v.platform_tag = TagUniversal2)
        any_platform == SelectSeq(compatible, LAMBDA v : v.platform_tag = TagAny)
    IN  IF compatible = <<>> THEN Selection(FALSE, "incompatible", NoVariant)
        ELSE IF exact_matches # <<>> THEN Selection(TRUE, "exact", exact_matches[1])
        ELSE IF StartsWithMacosx(current_platform_tag) /\ universal2 # <<>>
             THEN Selection(TRUE, "universal2", universal2[1])
        ELSE IF any_platform # <<>> THEN Selection(TRUE, "any", any_platform[1])
        ELSE Selection(TRUE, "fallback", compatible[1])

----------------------------------------------------------------------------
(* Manifest and dependency resolution (commands.py) *)

\* a manifest entry; present = FALSE stands for a name without an entry
Entry(deps, tag) == [present |-> TRUE, dependencies |-> deps, platform_tag |-> tag]
NoEntry == [present |-> FALSE, dependencies |-> <<>>, platform_tag |-> TagAny]

\* what a _build_dependency_graph call produces: a returned list together
\* with the shared visited set, or one of the two sys.exit(1) paths
Returned(result, visited) ==
    [status |-> "ok", result |-> result, visited |-> visited,
     chain |-> <<>>, missing |-> ""]
CycleExit(chain) ==
    [status |-> "cycle", result |-> <<>>, visited |-> {},
     chain |-> chain, missing |-> ""]
NotFoundExit(name) ==
    [status |-> "notfound", result |-> <<>>, visited |-> {},
     chain |-> <<>>, missing |-> name]

RECURSIVE build_dependency_graph_no_path_check(_, _, _, _)
RECURSIVE resolve_dependencies_no_path_check(_, _, _, _, _, _)
resolve_dependencies_no_path_check(deps, i, m, visited, path, result) ==
    IF i > Len(deps) THEN Returned(result, visited)
    ELSE LET r == build_dependency_graph_no_path_check(deps[i], m, visited, path)
         IN  IF r.status # "ok" THEN r
             ELSE resolve_dependencies_no_path_check(deps, i + 1, m, r.visited,
                                                     path, result \o r.result)

build_dependency_graph_no_path_check(package_name, m, visited, path) ==
    IF package_name \in visited THEN Returned(<<>>, visited)
    ELSE IF ~m[package_name].present THEN NotFoundExit(package_name)
    ELSE LET r == resolve_dependencies_no_path_check(
                      m[package_name].dependencies, 1, m,
                      visited \cup {package_name},
                      Append(path, package_name), <<>>)
         IN  IF r.status # "ok" THEN r
             ELSE Returned(Append(r.result, package_name), r.visited)

RECURSIVE build_dependency_graph_preorder(_, _, _, _)
RECURSIVE resolve_dependencies_preorder(_, _, _, _, _, _)
resolve_dependencies_preorder(deps, i, m, visited, path, result) ==
    IF i > Len(deps) THEN Returned(result, visited)
    ELSE LET r == build_dependency_graph_preorder(deps[i], m, visited, path)
         IN  IF r.status # "ok" THEN r
             ELSE resolve_dependencies_preorder(deps, i + 1, m, r.visited,
                                                path, result \o r.result)

build_dependency_graph_preorder(package_name, m, visited, path) ==
    IF InSeq(package_name, path) THEN CycleExit(Append(path, package_name))
    ELSE IF package_name \in visited THEN Returned(<<>>, visited)
    ELSE IF ~m[package_name].present THEN NotFoundExit(package_name)
    ELSE LET r == resolve_dependencies_preorder(
                      m[package_name].dependencies, 1, m,
                      visited \cup {package_name},
                      Append(path, package_name), <<package_name>>)
         IN  r

build_dependency_graph_direct_only(package_name, m, visited, path) ==
    IF InSeq(package_name, path) THEN CycleExit(Append(path, package_name))
    ELSE IF package_name \in visited THEN Returned(<<>>, visited)
    ELSE IF ~m[package_name].present THEN NotFoundExit(package_name)
    ELSE Returned(Append(m[package_name].dependencies, package_name),
                  visited \cup {package_name})

RECURSIVE build_dependency_graph(_, _, _, _)
RECURSIVE resolve_dependencies(_, _, _, _, _, _)

\* the loop "for dep in package_info.get('dependencies', [])": each call gets
\* its own copy of path and shares visited; a sys.exit in a call ends it all
resolve_dependencies(deps, i, m, visited, path, result) ==
    IF i > Len(deps) THEN Returned(result, visited)
    ELSE LET r == build_dependency_graph(deps[i], m, visited, path)
         IN  IF r.status # "ok" THEN r
             ELSE resolve_dependencies(deps, i + 1, m, r.visited, path,
                                       result \o r.result)

build_dependency_graph(package_name, m, visited, path) ==
    IF InSeq(package_name, path) THEN CycleExit(Append(path, package_name))
    ELSE IF package_name \in visited THEN Returned(<<>>, visited)
    ELSE IF ~m[package_name].present THEN NotFoundExit(package_name)
    ELSE LET r == resolve_dependencies(
                      m[package_name].dependencies, 1, m,
                      visited \cup {package_name},
                      Append(path, package_name), <<>>)
         IN  IF r.status # "ok" THEN r
             ELSE Returned(Append(r.result, package_name), r.visited)

----------------------------------------------------------------------------
(* Inputs *)

\* dependency lists: at most MaxDeps distinct names, or one name twice; a
\* name may lack a manifest entry
DepLists == {d \in SeqsUpTo(Names, MaxDeps) : NoDup(d)} \cup {<<n, n>> : n \in Names}

\* manifests of the resolver specification: A, B and C carry any dependency
\* list or have no entry, D is a leaf or has no entry
EntryChoices == {Entry(d, TagAny) : d \in DepLists} \cup {NoEntry}
ResolverManifests ==
    {m \in [Names -> EntryChoices] : m["D"] \in {Entry(<<>>, TagAny), NoEntry}}

Pending == [status |-> "pending", result |-> <<>>, visited |-> {},
            chain |-> <<>>, missing |-> ""]
NotSelected == Selection(FALSE, "pending", NoVariant)

\* variant lists: the i-th variant's artifact is named by its position
VariantLists ==
    UNION {{[i \in 1..k |-> [platform_tag |-> t[i], filename |-> ToString(i)]] :
        t \in [1..k -> VariantTags]} : k \in 0..MaxVariants}

InstallIdle ==
    /\ pc = "idle"
    /\ dirs = [n \in InstallNames |-> "absent"]
    /\ matlab = "absent"
    /\ mipDirExists = FALSE
    /\ fs0 = [dirs |-> dirs, matlab |-> matlab, mipDirExists |-> mipDirExists]
    /\ install_order = <<>>
    /\ to_install = <<>>
    /\ idx = 0
    /\ downloads = <<>>
    /\ extracted = <<>>
    /\ exitCode = -1
    /\ failure = "none"

----------------------------------------------------------------------------
(* Specification of the resolver: one _build_dependency_graph call *)

InitResolve ==
    /\ manifest \in ResolverManifests
    /\ requested \in Names
    /\ resolution = Pending
    /\ variants = <<>>
    /\ host = TagAny
    /\ selected = NotSelected
    /\ InstallIdle

\* install_order = _build_dependency_graph(package_name, manifest)
Resolve ==
    /\ resolution.status = "pending"
    /\ resolution' = build_dependency_graph(requested, manifest, {}, <<>>)
    /\ UNCHANGED <<manifest, requested, variants, host, selected>>
    /\ UNCHANGED installVars

NextResolve == Resolve

SpecResolve == InitResolve /\ [][NextResolve]_vars

----------------------------------------------------------------------------
(* Specification of the platform matcher: one select_best_package_variant call *)

InitVariant ==
    /\ manifest = [n \in Names |-> NoEntry]
    /\ requested = "A"
    /\ resolution = Pending
    /\ variants \in VariantLists
    /\ host \in HostTags
    /\ selected = NotSelected
    /\ InstallIdle

SelectBest ==
    /\ selected.rule = "pending"
    /\ selected' = select_best_package_variant(variants, host)
    /\ UNCHANGED <<manifest, requested, resolution, variants, host>>
    /\ UNCHANGED installVars

NextVariant == SelectBest

SpecVariant == InitVariant /\ [][NextVariant]_vars

----------------------------------------------------------------------------
(* Specification of install runs: install_package and uninstall_package *)

\* package_dir.exists()
IsInstalled(d, n) == d[n] # "absent"

\* lines 161-170: keep the names whose package directory does not exist
already_installed_filter_keep_installed(order, d) ==
    SelectSeq(order, LAMBDA n : IsInstalled(d, n))

already_installed_filter(order, d) ==
    SelectSeq(order, LAMBDA n : ~IsInstalled(d, n))

\* what _ensure_mip_matlab_setup may leave in ~/.mip/matlab/+mip: what was
\* there (the packaged +mip is missing, or mkdir raised), the fresh copy, or
\* nothing (copytree raised after the old copy was removed); every exception
\* is swallowed with a warning
ensure_mip_matlab_setup(old) == {old, "current", "absent"}

\* the package_info record that _download_and_install receives
PackageInfo(m, n) ==
    [name |-> n, platform_tag |-> m[n].platform_tag, filename |-> n]

\* the variants the manifest offers for a name: one entry per name
VariantsOf(m, n) ==
    IF m[n].present
    THEN <<[platform_tag |-> m[n].platform_tag, filename |-> n]>>
    ELSE <<>>

\* duplicate-free dependency lists among A, B, C, shorter than k; a list
\* naming all three names its own package and is a cycle already
InstallDepLists(k) ==
    {d \in SeqsUpTo(InstallNames, k - 1) : NoDup(d)}

\* manifests of the install specifications: A, B and C each with a
\* dependency list from L and a platform tag from T, or without an entry
InstallManifests(L, T) ==
    {m \in [Names -> {Entry(d, t) : d \in L, t \in T} \cup {NoEntry}] :
        m["D"] = NoEntry}

RunEnded == pc \in {"idle", "done", "exited"}

ClearRun ==
    /\ install_order' = <<>>
    /\ to_install' = <<>>
    /\ idx' = 0
    /\ downloads' = <<>>
    /\ extracted' = <<>>
    /\ exitCode' = -1
    /\ failure' = "none"

\* sys.exit(1), directly or from one of the except clauses
ExitRun(code, why) ==
    /\ pc' = "exited"
    /\ exitCode' = code
    /\ failure' = why

InitInstallState ==
    /\ resolution = Pending
    /\ variants = <<>>
    /\ selected = NotSelected
    /\ requested = "A"
    /\ pc = "idle"
    /\ dirs \in [InstallNames -> {"absent", "complete"}]
    /\ mipDirExists = (\E n \in InstallNames : IsInstalled(dirs, n))
    /\ matlab = IF mipDirExists THEN "stale" ELSE "absent"
    /\ fs0 = [dirs |-> dirs, matlab |-> matlab, mipDirExists |-> mipDirExists]
    /\ install_order = <<>>
    /\ to_install = <<>>
    /\ idx = 0
    /\ downloads = <<>>
    /\ extracted = <<>>
    /\ exitCode = -1
    /\ failure = "none"

Init ==
    /\ manifest \in InstallManifests(InstallDepLists(Cardinality(InstallNames)), {TagAny})
    /\ host = TagLinux
    /\ InitInstallState

\* install_package, lines 139-147: refresh the MATLAB integration, create
\* the packages directory, then go and fetch the manifest
BeginInstall ==
    /\ RunEnded
    /\ \E name \in InstallNames : requested' = name
    /\ fs0' = [dirs |-> dirs, matlab |-> matlab, mipDirExists |-> mipDirExists]
    /\ matlab' \in ensure_mip_matlab_setup(matlab)
    /\ mipDirExists' = TRUE
    /\ pc' = "fetch"
    /\ ClearRun
    /\ UNCHANGED <<manifest, resolution, variants, host, selected, dirs>>

\* lines 151-155: the manifest arrives and parses
FetchManifestOk ==
    /\ pc = "fetch"
    /\ pc' = "resolve"
    /\ UNCHANGED <<manifest, requested, resolution, variants, host, selected,
                   dirs, matlab, mipDirExists, fs0, install_order, to_install,
                   idx, downloads, extracted, exitCode, failure>>

FetchManifestFail_exit0 ==
    /\ pc = "fetch"
    /\ ExitRun(0, "fetch")
    /\ UNCHANGED <<manifest, requested, resolution, variants, host, selected,
                   dirs, matlab, mipDirExists, fs0, install_order, to_install,
                   idx, downloads, extracted>>

\* lines 151-155 raise HTTPError, URLError or a JSON error: lines 191-199
FetchManifestFail ==
    /\ pc = "fetch"
    /\ ExitRun(1, "fetch")
    /\ UNCHANGED <<manifest, requested, resolution, variants, host, selected,
                   dirs, matlab, mipDirExists, fs0, install_order, to_install,
                   idx, downloads, extracted>>

\* line 159: the graph walk returns the install order or exits the process
\* (SystemExit is not an Exception, so no except clause catches it)
ResolveDependencies ==
    /\ pc = "resolve"
    /\ LET r == build_dependency_graph(requested, manifest, {}, <<>>)
       IN  IF r.status = "ok"
           THEN /\ install_order' = r.result
                /\ pc' = "filter"
                /\ UNCHANGED <<exitCode, failure>>
           ELSE /\ ExitRun(1, r.status)
                /\ UNCHANGED install_order
    /\ UNCHANGED <<manifest, requested, resolution, variants, host, selected,
                   dirs, matlab, mipDirExists, fs0, to_install, idx,
                   downloads, extracted>>

\* lines 161-174: filter out what is installed; nothing left is a plain return
FilterInstalled ==
    /\ pc = "filter"
    /\ LET plan == already_installed_filter(install_order, dirs)
       IN  /\ to_install' = plan
           /\ IF plan = <<>>
              THEN /\ pc' = "done"
                   /\ exitCode' = 0
                   /\ idx' = 0
              ELSE /\ pc' = "download"
                   /\ exitCode' = exitCode
                   /\ idx' = 1
    /\ UNCHANGED <<manifest, requested, resolution, variants, host, selected,
                   dirs, matlab, mipDirExists, fs0, install_order, downloads,
                   extracted, failure>>

\* _download_and_install, lines 109-120: urlretrieve of the entry's filename
DownloadOk ==
    /\ pc = "download"
    /\ downloads' = Append(downloads, PackageInfo(manifest, to_install[idx]))
    /\ pc' = "extract"
    /\ UNCHANGED <<manifest, requested, resolution, variants, host, selected,
                   dirs, matlab, mipDirExists, fs0, install_order, to_install,
                   idx, extracted, exitCode, failure>>

DownloadFail_continue ==
    /\ pc = "download"
    /\ downloads' = Append(downloads, PackageInfo(manifest, to_install[idx]))
    /\ IF idx = Len(to_install)
       THEN /\ pc' = "done"
            /\ exitCode' = 0
            /\ idx' = idx
       ELSE /\ pc' = "download"
            /\ exitCode' = exitCode
            /\ idx' = idx + 1
    /\ UNCHANGED <<manifest, requested, resolution, variants, host, selected,
                   dirs, matlab, mipDirExists, fs0, install_order, to_install,
                   extracted, failure>>

\* urlretrieve raises: lines 191-199 end the run
DownloadFail ==
    /\ pc = "download"
    /\ downloads' = Append(downloads, PackageInfo(manifest, to_install[idx]))
    /\ ExitRun(1, "download")
    /\ UNCHANGED <<manifest, requested, resolution, variants, host, selected,
                   dirs, matlab, mipDirExists, fs0, install_order, to_install,
                   idx, extracted>>

\* lines 123-130 and the loop of lines 185-189: the archive is extracted and
\* removed; the loop moves on, or the run ends after the last package
ExtractOk ==
    /\ pc = "extract"
    /\ dirs' = [dirs EXCEPT ![to_install[idx]] = "complete"]
    /\ extracted' = Append(extracted, to_install[idx])
    /\ IF idx = Len(to_install)
       THEN /\ pc' = "done"
            /\ exitCode' = 0
            /\ idx' = idx
       ELSE /\ pc' = "download"
            /\ exitCode' = exitCode
            /\ idx' = idx + 1
    /\ UNCHANGED <<manifest, requested, resolution, variants, host, selected,
                   matlab, mipDirExists, fs0, install_order, to_install,
                   downloads, failure>>

\* line 124 raises (the file is no zip archive): nothing was extracted
ExtractFailNotZip ==
    /\ pc = "extract"
    /\ ExitRun(1, "extract")
    /\ UNCHANGED <<manifest, requested, resolution, variants, host, selected,
                   dirs, matlab, mipDirExists, fs0, install_order, to_install,
                   idx, downloads, extracted>>

\* line 125 raises after extractall created the package directory and wrote
\* some members: the directory stays behind
ExtractFailPartial ==
    /\ pc = "extract"
    /\ dirs' = [dirs EXCEPT ![to_install[idx]] = "partial"]
    /\ ExitRun(1, "extract")
    /\ UNCHANGED <<manifest, requested, resolution, variants, host, selected,
                   matlab, mipDirExists, fs0, install_order, to_install,
                   idx, downloads, extracted>>

\* uninstall_package, confirmed with 'y': the package directory is removed
UninstallPackage ==
    /\ RunEnded
    /\ \E name \in InstallNames :
          /\ IsInstalled(dirs, name)
          /\ dirs' = [dirs EXCEPT ![name] = "absent"]
    /\ matlab' \in ensure_mip_matlab_setup(matlab)
    /\ pc' = "idle"
    /\ fs0' = [dirs |-> dirs', matlab |-> matlab', mipDirExists |-> mipDirExists]
    /\ ClearRun
    /\ UNCHANGED <<manifest, requested, resolution, variants, host, selected,
                   mipDirExists>>

Next ==
    \/ BeginInstall
    \/ FetchManifestOk
    \/ FetchManifestFail
    \/ ResolveDependencies
    \/ FilterInstalled
    \/ DownloadOk
    \/ DownloadFail
    \/ ExtractOk
    \/ ExtractFailNotZip
    \/ ExtractFailPartial
    \/ UninstallPackage

Spec == Init /\ [][Next]_vars

\* install runs over manifests whose entries carry differing platform tags
InitPlatform ==
    /\ manifest \in InstallManifests(InstallDepLists(Cardinality(InstallNames) - 1),
                                   {TagAny, TagWin})
    /\ host = TagLinux
    /\ InitInstallState
    /\ dirs = [n \in InstallNames |-> "absent"]

SpecPlatform == InitPlatform /\ [][Next]_vars

----------------------------------------------------------------------------
(* The dependency relation of a manifest, stated without the walk *)

Deps(m, n) == IF m[n].present THEN Range(m[n].dependencies) ELSE {}

\* least set containing S and closed under "depends on"
RECURSIVE Closure(_, _)
Closure(m, S) ==
    LET T == S \cup UNION {Deps(m, n) : n \in S}
    IN  IF T = S THEN S ELSE Closure(m, T)

\* names reachable from n, n included
Reachable(m, n) == Closure(m, {n})

\* a is a (transitive) dependency of b
TransDep(m, a, b) == a \in Closure(m, Deps(m, b)) /\ Deps(m, b) # {}

\* a dependency cycle is reachable from n
HasCycle(m, n) == \E k \in Reachable(m, n) : TransDep(m, k, k)

\* every name reachable from n has a manifest entry
AllDefined(m, n) == \A k \in Reachable(m, n) : m[k].present

IndexOf(x, s) == CHOOSE i \in 1..Len(s) : s[i] = x

\* each reachable name exactly once, dependencies before dependents
DependencyOrder(m, n, order) ==
    /\ Range(order) = Reachable(m, n)
    /\ NoDup(order)
    /\ \A a, b \in Range(order) :
           TransDep(m, a, b) => IndexOf(a, order) < IndexOf(b, order)

ExampleDiamond ==
    [n \in Names |->
        CASE n = "A" -> Entry(<<"B", "C">>, TagAny)
          [] n = "B" -> Entry(<<"D">>, TagAny)
          [] OTHER   -> Entry(<<>>, TagAny)]

ExampleCycle ==
    [n \in Names |->
        CASE n = "A" -> Entry(<<"B">>, TagAny)
          [] n = "B" -> Entry(<<"A">>, TagAny)
          [] OTHER   -> NoEntry]

ResolveDone == resolution.status # "pending"

----------------------------------------------------------------------------
(* Claims about the resolver, checked under SpecResolve *)

\* C1 as stated: for every manifest without a dependency cycle and every
\* requested name, the call returns a sequence holding each reachable name
\* exactly once, every dependency before its dependents.
C1_AsStated ==
    (ResolveDone /\ ~HasCycle(manifest, requested)) =>
        /\ resolution.status = "ok"
        /\ DependencyOrder(manifest, requested, resolution.result)

\* C1 amended: for every manifest without a dependency cycle in which every
\* name reachable from the requested name has an entry, the call returns a
\* sequence holding each reachable name exactly once, every dependency
\* before its dependents; the diamond example yields [D, B, C, A].
C1_ResolveOrder ==
    /\ (ResolveDone /\ ~HasCycle(manifest, requested)
           /\ AllDefined(manifest, requested)) =>
        /\ resolution.status = "ok"
        /\ DependencyOrder(manifest, requested, resolution.result)
    /\ (ResolveDone /\ manifest = ExampleDiamond /\ requested = "A") =>
        resolution.result = <<"D", "B", "C", "A">>

C1_Witness ==
    /\ ResolveDone
    /\ manifest = ExampleDiamond
    /\ requested = "A"
    /\ resolution.status = "ok"
    /\ resolution.result = <<"D", "B", "C", "A">>

\* the chain printed with a cycle: starts at the requested name, follows
\* dependency edges, and ends at a name that is already on it
IsCycleChain(m, n, chain) ==
    /\ Len(chain) >= 2
    /\ chain[1] = n
    /\ \A i \in 1..(Len(chain) - 1) : chain[i + 1] \in Deps(m, chain[i])
    /\ \E i \in 1..(Len(chain) - 1) : chain[i] = chain[Len(chain)]
    /\ NoDup(SubSeq(chain, 1, Len(chain) - 1))

\* C2 as stated: whenever a dependency cycle is reachable from the requested
\* name the call fails with the circular-dependency exit.
C2_AsStated ==
    (ResolveDone /\ HasCycle(manifest, requested)) =>
        resolution.status = "cycle"

\* C2 amended: whenever a dependency cycle is reachable from the requested
\* name the call never returns a sequence: it exits with the
\* circular-dependency error, or with the not-found error when the walk
\* reaches a name without an entry before it closes a cycle (which needs
\* such a name to be reachable); the reported chain runs from the requested
\* name along dependency edges back to a name already on it, A -> B -> A in
\* the example.
C2_CycleFails ==
    /\ (ResolveDone /\ HasCycle(manifest, requested)) =>
        /\ resolution.status \in {"cycle", "notfound"}
        /\ resolution.result = <<>>
        /\ AllDefined(manifest, requested) => resolution.status = "cycle"
    /\ (ResolveDone /\ resolution.status = "cycle") =>
        /\ HasCycle(manifest, requested)
        /\ IsCycleChain(manifest, requested, resolution.chain)
    /\ (ResolveDone /\ manifest = ExampleCycle /\ requested = "A") =>
        /\ resolution.status = "cycle"
        /\ resolution.chain = <<"A", "B", "A">>

C2_Witness ==
    /\ ResolveDone
    /\ manifest = ExampleCycle
    /\ requested = "A"
    /\ resolution.status = "cycle"
    /\ resolution.chain = <<"A", "B", "A">>

----------------------------------------------------------------------------
(* Claims about the platform matcher, checked under SpecVariant *)

SelectDone == selected.rule # "pending"

HasTag(vs, tag) == \E i \in 1..Len(vs) : vs[i].platform_tag = tag

\* the first variant, in input order, carrying the tag
FirstWithTag(vs, tag) ==
    vs[CHOOSE i \in 1..Len(vs) :
            /\ vs[i].platform_tag = tag
            /\ \A j \in 1..(i - 1) : vs[j].platform_tag # tag]

NoneCompatible(vs, h) ==
    \A i \in 1..Len(vs) : ~is_platform_compatible(vs[i].platform_tag, h)

\* a universal2 variant that the host can run is on offer
Universal2Offered(vs, h) ==
    HasTag(vs, TagUniversal2) /\ is_platform_compatible(TagUniversal2, h)

\* C4 as stated: exact over any over universal2; none when the list is empty
\* or wholly incompatible.
C4_AsStated ==
    SelectDone =>
        /\ (selected.found /\ selected.variant.platform_tag = TagAny
                /\ host # TagAny) => ~HasTag(variants, host)
        /\ (selected.found /\ selected.variant.platform_tag = TagUniversal2
                /\ host # TagUniversal2) =>
               (~HasTag(variants, host) /\ ~HasTag(variants, TagAny))
        /\ (variants = <<>> \/ NoneCompatible(variants, host)) => ~selected.found

\* C4 amended: exact over universal2 over any: a universal2 variant is
\* returned only if no exact match is present, an `any` variant only if
\* neither an exact match nor a universal2 variant compatible with the host
\* is present; the result is none exactly when the list is empty or every
\* variant is incompatible with the host tag.
C4_Preference ==
    SelectDone =>
        /\ (selected.found /\ selected.variant.platform_tag = TagUniversal2
                /\ host # TagUniversal2) => ~HasTag(variants, host)
        /\ (selected.found /\ selected.variant.platform_tag = TagAny
                /\ host # TagAny) =>
               (~HasTag(variants, host) /\ ~Universal2Offered(variants, host))
        /\ HasTag(variants, host) =>
               (selected.found /\ selected.variant.platform_tag = host)
        /\ ~selected.found <=>
               (variants = <<>> \/ NoneCompatible(variants, host))

C4_Witness ==
    /\ SelectDone
    /\ host = TagMacArm
    /\ HasTag(variants, TagAny)
    /\ HasTag(variants, TagUniversal2)
    /\ selected.found
    /\ selected.variant.platform_tag = TagUniversal2

----------------------------------------------------------------------------
(* Claims about install runs, checked under Spec *)

\* the run has computed its plan
Planned ==
    \/ pc \in {"download", "extract", "done"}
    \/ pc = "exited" /\ failure \in {"download", "extract"}

\* the run ended in resolution: manifest fetch, missing package or cycle
ResolutionFailed ==
    pc = "exited" /\ failure \in {"fetch", "notfound", "cycle"}

\* C6: the plan holds exactly the names of the resolved order that are not
\* installed, in the order's relative order; filtering the plan again against
\* the same local state gives the plan back; an empty plan ends the run
\* without error and without any download.
C6_PlanFilter ==
    Planned =>
        /\ Range(to_install) =
               {n \in Range(install_order) : ~IsInstalled(fs0.dirs, n)}
        /\ IsSubseq(to_install, install_order)
        /\ \A n \in Range(to_install) :
               Count(n, to_install) = Count(n, install_order)
        /\ already_installed_filter(to_install, fs0.dirs) = to_install
        /\ to_install = <<>> =>
               /\ pc = "done"
               /\ exitCode = 0
               /\ downloads = <<>>
               /\ dirs = fs0.dirs

C6_Witness ==
    /\ Planned
    /\ Len(install_order) >= 3
    /\ Len(to_install) = 2
    /\ to_install[1] = install_order[1]
    /\ to_install[2] = install_order[3]

\* C7 as stated: a run that fails in resolution exits with code 1 before any
\* filesystem mutation.
C7_AsStated ==
    ResolutionFailed =>
        /\ exitCode = 1
        /\ dirs = fs0.dirs
        /\ matlab = fs0.matlab
        /\ mipDirExists = fs0.mipDirExists

\* C7 amended: a run that fails in resolution exits with code 1 before any
\* package is downloaded or extracted, so the set of installed package names
\* is what it was before the run; all the run may have changed by then is
\* ~/.mip/matlab/+mip (refreshed) and ~/.mip/packages (created).
C7_ResolutionFailure ==
    ResolutionFailed =>
        /\ exitCode = 1
        /\ dirs = fs0.dirs
        /\ downloads = <<>>
        /\ extracted = <<>>
        /\ mipDirExists

C7_Witness ==
    /\ ResolutionFailed
    /\ failure = "cycle"
    /\ \E n \in InstallNames : IsInstalled(dirs, n)
    /\ matlab # fs0.matlab

\* C8: the plan is executed in order, one package at a time: a package is
\* fetched only after every earlier one of the plan was fetched and extracted;
\* a failed fetch or extraction ends the run with exit code 1, the failed
\* package having been fetched once and no later one at all, and what the run
\* installed before stays installed.
C8_SequentialFailFast ==
    Planned =>
        /\ Len(downloads) <= Len(to_install)
        /\ \A i \in 1..Len(downloads) : downloads[i].name = to_install[i]
        /\ extracted = SubSeq(to_install, 1, Len(extracted))
        /\ Len(extracted) <= Len(downloads)
        /\ Len(downloads) <= Len(extracted) + 1
        /\ pc = "download" => Len(downloads) = Len(extracted)
        /\ pc = "extract" => Len(downloads) = Len(extracted) + 1
        /\ (pc = "exited") =>
               /\ exitCode = 1
               /\ Len(downloads) = Len(extracted) + 1
               /\ \A n \in Range(extracted) : dirs[n] = "complete"
               /\ \A i \in (Len(downloads) + 1)..Len(to_install) :
                      dirs[to_install[i]] = "absent"
        /\ pc = "done" =>
               /\ exitCode = 0
               /\ extracted = to_install

C8_Witness ==
    /\ pc = "exited"
    /\ failure = "extract"
    /\ Len(to_install) = 3
    /\ Len(downloads) = 2
    /\ Len(extracted) = 1
    /\ dirs[to_install[1]] = "complete"
    /\ dirs[to_install[3]] = "absent"

\* C9: after a run that ends without error the requested package and all its
\* transitive dependencies are installed, those of skipped packages included;
\* and whenever the installation of a planned package begins, all its
\* transitive dependencies are installed.
C9_DependenciesInstalled ==
    /\ pc = "done" =>
           \A n \in Reachable(manifest, requested) : IsInstalled(dirs, n)
    /\ pc \in {"download", "extract"} =>
           \A a \in Names :
               TransDep(manifest, a, to_install[idx]) => IsInstalled(dirs, a)

C9_Witness ==
    /\ pc = "done"
    /\ exitCode = 0
    /\ \E b \in Range(install_order) :
          /\ IsInstalled(fs0.dirs, b)
          /\ \E c \in Range(extracted) : c \in Deps(manifest, b)
    /\ requested \in Range(extracted)

\* C10: a package directory exists only if its archive was extracted to
\* completion, and after a run that failed downloading or extracting a
\* package a following run with the same manifest and request plans that
\* package again.
C10_AsStated ==
    /\ \A n \in InstallNames : IsInstalled(dirs, n) => dirs[n] = "complete"
    /\ (pc = "exited" /\ failure \in {"download", "extract"}) =>
           InSeq(to_install[idx], already_installed_filter(install_order, dirs))

----------------------------------------------------------------------------
(* Claim about platform selection in install runs, checked under SpecPlatform *)

\* C3: every artifact an install run downloads is the variant that
\* select_best_package_variant chooses for the host among the package's
\* variants, and a package without a compatible variant ends the run before
\* it or any later package is downloaded.
C3_AsStated ==
    \A i \in 1..Len(downloads) :
        LET best == select_best_package_variant(
                        VariantsOf(manifest, downloads[i].name), host)
        IN  /\ best.found
            /\ best.variant.filename = downloads[i].filename
            /\ best.variant.platform_tag = downloads[i].platform_tag

====
